---- MODULE Spec2Model ----
(***************************************************************************)
(* The offline image-to-geometry pipeline of the map planner:              *)
(*   repair-borders.js            multi-pass border-gap repair             *)
(*   extract-tiles-precise        edge map, flood-fill segmentation,       *)
(*   (src/unnamed/part_006)       Moore-neighbour tracing, Douglas-Peucker *)
(*   extract-tiles                the basic extractor's area filter        *)
(*   (src/unnamed/part_004)                                                *)
(*                                                                         *)
(* A pixel of the RGBA buffer is represented by the largest of its three   *)
(* colour channels: the programs read a pixel only through the test        *)
(* r < 100 && g < 100 && b < 100, which is max(r,g,b) < 100, and write it  *)
(* only through setDark, which sets the three channels to 0.               *)
(***************************************************************************)
EXTENDS Integers, Sequences, FiniteSets, TLC

VARIABLES
    width,          \* canvas.width
    height,         \* canvas.height
    data,           \* the pixel buffer a stage reads: [0..width*height-1 -> 0..255]
    pc,             \* position of the running script
    \* ---- repair-borders.js
    pass,           \* number of completed passes
    outputData,     \* the pass's fresh copy, written by setDark
    swept,          \* interior pixels the current pass has already visited
    pixelsFilled,   \* the pass's changed-pixel counter
    \* ---- extract-tiles-precise
    edges,          \* the edge map: 1 for a detected border pixel, else 0
    visited,        \* set of pixel indices marked visited by floodFill
    tiles,          \* sequence of accepted regions
    seed,           \* index into SeedSeq of the seed being considered
    stack,          \* floodFill's explicit stack of <<x, y>>
    region,         \* floodFill's running pixels / minX / maxX / minY / maxY
    lastSize,       \* size of the region the last floodFill returned
    \* ---- extractPreciseContours / mooreNeighborTracing
    result,         \* tilesWithContours
    tileNo,         \* 1-based position in tiles of the tile being traced
    start,          \* <<startX, startY>> or <<>> when none was found
    cur,            \* the trace's current <<x, y>>
    dir,            \* the trace's search direction 0..7
    iterations,     \* the trace's iteration counter
    contour,        \* the trace's point list
    warned,         \* ids of tiles for which the max-iterations warning was logged
    document        \* the written tile-data.json, or <<>> before it is written

vars == <<width, height, data, pc, pass, outputData, swept, pixelsFilled,
          edges, visited, tiles, seed, stack, region, lastSize,
          result, tileNo, start, cur, dir, iterations, contour, warned, document>>

repairVars == <<pass, outputData, swept, pixelsFilled>>
segmentVars == <<edges, visited, tiles, seed, stack, region, lastSize>>
contourVars == <<result, tileNo, start, cur, dir, iterations, contour, warned, document>>

(***************************************************************************)
(* Program constants                                                       *)
(***************************************************************************)
DarkThreshold == 100
numPassesFive == 3 + 2
numPasses == 3
SeedMargin == 10
SeedStride == 5
minArea == 200
maxArea == 50000
maxIterations == 10000
SimplifyTolerance == 2

(***************************************************************************)
(* Bounds of the model                                                     *)
(***************************************************************************)
RepairWidth == 4
RepairHeight == 4
MaxDark == 3
OrderWidth == 4
OrderHeight == 3
OrderMaxDark == 2
TraceWidth == 5
TraceHeight == 4
SimplifyMaxY == 2
MaxPoints == 4
MaxTolerance == 2
ImgWidth == 27
ImgHeight == 24
MaxInset == 2
MaxGap == 1
MaxIsland == 2
BandWindow == 15
EndToEndSize == 100
InteriorSide == 10
SquareGap == 2
RoomSide == 17
RoomMargin == 2
DividerGap == 4

(***************************************************************************)
(* Pixel buffers                                                           *)
(***************************************************************************)
InputDark == DarkThreshold - 1      \* a dark pixel of a loaded image
InputLight == DarkThreshold         \* the darkest pixel that is not dark

PixelIdx(x, y) == y * width + x
Pixels == 0..(width * height - 1)
XOf(p) == p % width
YOf(p) == p \div width

RECURSIVE SubsetsUpTo(_, _)
SubsetsUpTo(S, k) ==
    IF k = 0 \/ S = {} THEN {{}}
    ELSE LET e == CHOOSE e \in S : TRUE
             rest == S \ {e}
         IN  SubsetsUpTo(rest, k) \cup {T \cup {e} : T \in SubsetsUpTo(rest, k - 1)}

\* The pixels of complete rows R and complete columns C of a w x h image.
GridLines(w, h, R, C) ==
    {p \in 0..(w * h - 1) : (p \div w) \in R \/ (p % w) \in C}

MaskOf(w, h, D) == [p \in 0..(w * h - 1) |-> IF p \in D THEN InputDark ELSE InputLight]

isDarkAt(d, x, y) ==
    IF x < 0 \/ x >= width \/ y < 0 \/ y >= height THEN FALSE
    ELSE d[PixelIdx(x, y)] < DarkThreshold

setDark(d, x, y) == [d EXCEPT ![PixelIdx(x, y)] = 0]

(***************************************************************************)
(* repair-borders.js: the decision for one pixel                           *)
(***************************************************************************)
neighbors(d, x, y) ==
    [top         |-> isDarkAt(d, x, y - 1),
     bottom      |-> isDarkAt(d, x, y + 1),
     left        |-> isDarkAt(d, x - 1, y),
     right       |-> isDarkAt(d, x + 1, y),
     topLeft     |-> isDarkAt(d, x - 1, y - 1),
     topRight    |-> isDarkAt(d, x + 1, y - 1),
     bottomLeft  |-> isDarkAt(d, x - 1, y + 1),
     bottomRight |-> isDarkAt(d, x + 1, y + 1)]

darkCount(n) == Cardinality({f \in DOMAIN n : n[f]})

\* The extended-neighbour test without the darkCount guard.
ExtendedGapUnguarded(d, x, y) ==
    LET n == neighbors(d, x, y)
        has2Top == isDarkAt(d, x, y - 2)
        has2Bottom == isDarkAt(d, x, y + 2)
        has2Left == isDarkAt(d, x - 2, y)
        has2Right == isDarkAt(d, x + 2, y)
    IN  \/ (n.top /\ has2Bottom) \/ (n.bottom /\ has2Top)
        \/ (n.left /\ has2Right) \/ (n.right /\ has2Left)

ExtendedGap(d, x, y) ==
    LET n == neighbors(d, x, y)
        has2Top == isDarkAt(d, x, y - 2)
        has2Bottom == isDarkAt(d, x, y + 2)
        has2Left == isDarkAt(d, x - 2, y)
        has2Right == isDarkAt(d, x + 2, y)
    IN  IF darkCount(n) >= 2
        THEN IF (n.top /\ has2Bottom) \/ (n.bottom /\ has2Top) THEN TRUE
             ELSE IF (n.left /\ has2Right) \/ (n.right /\ has2Left) THEN TRUE
             ELSE FALSE
        ELSE FALSE

\* The chain of tests without the test darkCount >= 3.
ShouldFillNoCount(d, x, y) ==
    LET n == neighbors(d, x, y)
    IN  IF n.top /\ n.bottom THEN TRUE
        ELSE IF n.left /\ n.right THEN TRUE
        ELSE IF n.topLeft /\ n.bottomRight THEN TRUE
        ELSE IF n.topRight /\ n.bottomLeft THEN TRUE
        ELSE IF n.top /\ n.left /\ ~n.topLeft THEN TRUE
        ELSE IF n.top /\ n.right /\ ~n.topRight THEN TRUE
        ELSE IF n.bottom /\ n.left /\ ~n.bottomLeft THEN TRUE
        ELSE IF n.bottom /\ n.right /\ ~n.bottomRight THEN TRUE
        ELSE ExtendedGap(d, x, y)

\* TRUE when the chain of tests of the loop body reaches a setDark.
ShouldFill(d, x, y) ==
    LET n == neighbors(d, x, y)
    IN  IF n.top /\ n.bottom THEN TRUE
        ELSE IF n.left /\ n.right THEN TRUE
        ELSE IF n.topLeft /\ n.bottomRight THEN TRUE
        ELSE IF n.topRight /\ n.bottomLeft THEN TRUE
        ELSE IF n.top /\ n.left /\ ~n.topLeft THEN TRUE
        ELSE IF n.top /\ n.right /\ ~n.topRight THEN TRUE
        ELSE IF n.bottom /\ n.left /\ ~n.bottomLeft THEN TRUE
        ELSE IF n.bottom /\ n.right /\ ~n.bottomRight THEN TRUE
        ELSE IF darkCount(n) >= 3 THEN TRUE
        ELSE ExtendedGap(d, x, y)

\* The loop body of a repair that reads the buffer it writes.
VisitPixelInPlace(from, acc, x, y) ==
    IF isDarkAt(acc.out, x, y) THEN acc
    ELSE IF ShouldFill(acc.out, x, y)
         THEN [out |-> setDark(acc.out, x, y), filled |-> acc.filled + 1]
         ELSE acc

\* The loop body for pixel (x, y): reads `from`, writes acc.out (outputData)
\* and counts in acc.filled (pixelsFilled).
VisitPixel(from, acc, x, y) ==
    IF isDarkAt(from, x, y) THEN acc
    ELSE IF ShouldFill(from, x, y)
         THEN [out |-> setDark(acc.out, x, y), filled |-> acc.filled + 1]
         ELSE acc

\* Loops that start at the image edge.
LoopFromZero == 1 - 1

\* The pixels the two nested loops visit, in their order.
LoopFirst == 1
InteriorW == IF width - 1 > LoopFirst THEN width - 1 - LoopFirst ELSE 0
InteriorH == IF height - 1 > LoopFirst THEN height - 1 - LoopFirst ELSE 0
InteriorSeq ==
    [k \in 1..(InteriorW * InteriorH) |->
        <<LoopFirst + ((k - 1) % InteriorW), LoopFirst + ((k - 1) \div InteriorW)>>]
Interior == {InteriorSeq[k] : k \in DOMAIN InteriorSeq}

\* The two nested loops over the pixels still to visit: the first half of
\* them, then the rest.  The test on the counter, which no visit lowers, has
\* the first half evaluated before the second is begun.
RECURSIVE SweepFrom(_, _, _)
SweepFrom(from, acc, todo) ==
    IF todo = <<>> THEN acc
    ELSE IF Len(todo) = 1 THEN VisitPixel(from, acc, todo[1][1], todo[1][2])
    ELSE LET half == Len(todo) \div 2
             first == SweepFrom(from, acc, SubSeq(todo, 1, half))
         IN  IF first.filled >= 0
             THEN SweepFrom(from, first, SubSeq(todo, half + 1, Len(todo)))
             ELSE first

\* A pass whose output buffer starts as a blank white canvas instead of a copy.
SweepBlank(d) == SweepFrom(d, [out |-> [p \in DOMAIN d |-> 255], filled |-> 0], InteriorSeq)

\* One whole pass: outputData starts as a copy of data.
Sweep(d) == SweepFrom(d, [out |-> d, filled |-> 0], InteriorSeq)

(***************************************************************************)
(* Values of the variables a script does not use                           *)
(***************************************************************************)
NoRegion == [pixels |-> {}, minX |-> 0, maxX |-> 0, minY |-> 0, maxY |-> 0]

IdleSegment ==
    /\ edges = <<>>
    /\ visited = {}
    /\ tiles = <<>>
    /\ seed = 0
    /\ stack = <<>>
    /\ region = NoRegion
    /\ lastSize = 0

IdleContour ==
    /\ result = <<>>
    /\ tileNo = 0
    /\ start = <<>>
    /\ cur = <<>>
    /\ dir = 0
    /\ iterations = 0
    /\ contour = <<>>
    /\ warned = {}
    /\ document = <<>>

(***************************************************************************)
(* repair-borders.js run pass by pass                                      *)
(***************************************************************************)
InitRepair ==
    /\ width = RepairWidth
    /\ height = RepairHeight
    /\ \/ \E D \in SubsetsUpTo(0..(RepairWidth * RepairHeight - 1), MaxDark) :
             data = MaskOf(RepairWidth, RepairHeight, D)
       \/ \E R \in SUBSET (0..(RepairHeight - 1)), C \in SUBSET (0..(RepairWidth - 1)) :
             data = MaskOf(RepairWidth, RepairHeight,
                           GridLines(RepairWidth, RepairHeight, R, C))
    /\ pc = "repair"
    /\ pass = 0
    /\ outputData = data
    /\ swept = {}
    /\ pixelsFilled = 0
    /\ IdleSegment
    /\ IdleContour

\* One iteration of the pass loop.
RepairPass ==
    /\ pc = "repair"
    /\ pass < numPasses
    /\ LET r == Sweep(data)
       IN  /\ outputData' = r.out
           /\ pixelsFilled' = r.filled
           /\ data' = r.out
    /\ pass' = pass + 1
    /\ UNCHANGED <<width, height, pc, swept>>
    /\ UNCHANGED <<segmentVars, contourVars>>

\* putImageData and the write of map-repaired.png.
SaveRepaired ==
    /\ pc = "repair"
    /\ pass >= numPasses
    /\ pc' = "saved"
    /\ UNCHANGED <<width, height, data, repairVars, segmentVars, contourVars>>

NextRepair == RepairPass \/ SaveRepaired

SpecRepair == InitRepair /\ [][NextRepair]_vars

(***************************************************************************)
(* One pass of repair-borders.js pixel by pixel, the pixels of a pass      *)
(* taken in any order                                                      *)
(***************************************************************************)
InitOrder ==
    /\ width = OrderWidth
    /\ height = OrderHeight
    /\ \E D \in SubsetsUpTo(0..(OrderWidth * OrderHeight - 1), OrderMaxDark) :
          data = MaskOf(OrderWidth, OrderHeight, D)
    /\ pc = "sweep"
    /\ pass = 0
    /\ outputData = data
    /\ swept = {}
    /\ pixelsFilled = 0
    /\ IdleSegment
    /\ IdleContour

\* The loop body for one pixel the pass has not visited yet.
OrderVisit ==
    /\ pc = "sweep"
    /\ \E xy \in Interior \ swept :
          LET r == VisitPixel(data, [out |-> outputData, filled |-> pixelsFilled],
                              xy[1], xy[2])
          IN  /\ outputData' = r.out
              /\ pixelsFilled' = r.filled
              /\ swept' = swept \cup {xy}
    /\ UNCHANGED <<width, height, data, pc, pass>>
    /\ UNCHANGED <<segmentVars, contourVars>>

\* End of the pass: data = outputData, then the next pass's copy and counter.
OrderEndPass ==
    /\ pc = "sweep"
    /\ swept = Interior
    /\ data' = outputData
    /\ pass' = pass + 1
    /\ swept' = {}
    /\ IF pass + 1 < numPasses
       THEN pixelsFilled' = 0 /\ pc' = pc
       ELSE pixelsFilled' = pixelsFilled /\ pc' = "saved"
    /\ UNCHANGED <<width, height, outputData>>
    /\ UNCHANGED <<segmentVars, contourVars>>

NextOrder == OrderVisit \/ OrderEndPass

SpecOrder == InitOrder /\ [][NextOrder]_vars

(***************************************************************************)
(* extract-tiles-precise: the images it is run on                          *)
(*                                                                         *)
(* A scene is a white image with, optionally, a rectangular border frame   *)
(* `inset` pixels from the image edge (frame = inset + 1, 0 for no frame)  *)
(* and a vertical border line in column div (0 for none) that runs from    *)
(* the frame's top to its bottom, or from image edge to image edge when    *)
(* there is no frame, with `gap` missing pixels half-way down, and a solid  *)
(* square block of border pixels of side `island` (0 for none) standing    *)
(* free in the open space left of the line.                                *)
(***************************************************************************)
DivCols == {ImgWidth \div 2 - 1, ImgWidth \div 2}
GapRow == ImgHeight \div 2

FramePixels(w, h, frame) ==
    IF frame = 0 THEN {}
    ELSE LET i == frame - 1
         IN  {p \in 0..(w * h - 1) :
                 LET x == p % w
                     y == p \div w
                 IN  /\ x >= i /\ x <= w - 1 - i /\ y >= i /\ y <= h - 1 - i
                     /\ (x = i \/ x = w - 1 - i \/ y = i \/ y = h - 1 - i)}

DividerPixels(w, h, frame, div, gap) ==
    IF div = 0 THEN {}
    ELSE LET i == IF frame = 0 THEN 0 ELSE frame - 1
         IN  {p \in 0..(w * h - 1) :
                 LET x == p % w
                     y == p \div w
                 IN  /\ x = div
                     /\ y >= i /\ y <= h - 1 - i
                     /\ ~(y >= GapRow /\ y < GapRow + gap)}

IslandAt == SeedMargin \div 2

IslandPixels(w, h, island) ==
    {p \in 0..(w * h - 1) :
        /\ p % w >= IslandAt /\ p % w < IslandAt + island
        /\ p \div w >= IslandAt /\ p \div w < IslandAt + island}

SceneImage(w, h, frame, div, gap, island) ==
    MaskOf(w, h, FramePixels(w, h, frame) \cup DividerPixels(w, h, frame, div, gap)
                 \cup IslandPixels(w, h, island))

(***************************************************************************)
(* extract-tiles-precise: edge map, seeds, floodFill                       *)
(***************************************************************************)
\* First row and column of the edge-detection loops.
EdgeLoopFirst == 1

\* The edge map: new Array(width * height).fill(0), then 1 where a pixel the
\* loops visit is dark.
DetectedEdges(d) ==
    [p \in Pixels |->
        IF /\ YOf(p) >= EdgeLoopFirst /\ YOf(p) < height - EdgeLoopFirst
           /\ XOf(p) >= EdgeLoopFirst /\ XOf(p) < width - EdgeLoopFirst
           /\ d[p] < DarkThreshold
        THEN 1 ELSE 0]

isWhite(x, y) ==
    IF x < 0 \/ x >= width \/ y < 0 \/ y >= height THEN FALSE
    ELSE edges[PixelIdx(x, y)] = 0

\* The seed grid in loop order: y, then x, from SeedMargin in steps of
\* SeedStride while below the far margin.
\* A seed loop that stops one stride early.
SeedCountShort(n) ==
    IF n - SeedMargin > SeedMargin
    THEN (n - SeedMargin - SeedMargin - 1) \div SeedStride
    ELSE 0

SeedCount(n) ==
    IF n - SeedMargin > SeedMargin
    THEN (n - SeedMargin - SeedMargin - 1) \div SeedStride + 1
    ELSE 0
SeedSeq ==
    [k \in 1..(SeedCount(width) * SeedCount(height)) |->
        <<SeedMargin + SeedStride * ((k - 1) % SeedCount(width)),
          SeedMargin + SeedStride * ((k - 1) \div SeedCount(width))>>]

\* An area filter that keeps the two thresholds inside the band.
AcceptRegionClosed(size) == size >= minArea /\ size <= maxArea

\* The area filter of both extractors.
AcceptRegion(size) == size > minArea /\ size < maxArea

Min(a, b) == IF a < b THEN a ELSE b
Max(a, b) == IF a > b THEN a ELSE b

\* A midpoint rounded down.
RoundHalfDown(a) == a \div 2

\* Math.round of a / 2 for a >= 0.
RoundHalf(a) == (a + 1) \div 2

\* floodFill's update for a popped pixel that does not mark it visited.
FloodVisitUnmarked(x, y) ==
    /\ visited' = visited
    /\ region' = [pixels |-> region.pixels \cup {<<x, y>>},
                  minX |-> Min(region.minX, x), maxX |-> Max(region.maxX, x),
                  minY |-> Min(region.minY, y), maxY |-> Max(region.maxY, y)]

\* floodFill's update for a popped pixel that passed the three tests.
FloodVisit(x, y) ==
    /\ visited' = visited \cup {PixelIdx(x, y)}
    /\ region' = [pixels |-> region.pixels \cup {<<x, y>>},
                  minX |-> Min(region.minX, x), maxX |-> Max(region.maxX, x),
                  minY |-> Min(region.minY, y), maxY |-> Max(region.maxY, y)]

InitExtract ==
    /\ width = ImgWidth
    /\ height = ImgHeight
    /\ \E frame \in 0..(MaxInset + 1), div \in {0} \cup DivCols,
          gap \in 0..MaxGap, island \in 0..MaxIsland :
          /\ (div = 0 => gap = 0)
          /\ (gap > 0 => island = 0)
          /\ data = SceneImage(ImgWidth, ImgHeight, frame, div, gap, island)
    /\ pc = "edges"
    /\ pass = 0
    /\ outputData = <<>>
    /\ swept = {}
    /\ pixelsFilled = 0
    /\ IdleSegment
    /\ IdleContour

\* The edge-detection loops.
DetectEdges ==
    /\ pc = "edges"
    /\ edges' = DetectedEdges(data)
    /\ pc' = "seed"
    /\ seed' = 1
    /\ UNCHANGED <<width, height, data, repairVars, visited, tiles, stack, region, lastSize>>
    /\ UNCHANGED contourVars

\* A seed that is visited or not white: the loops move on.
SeedSkip ==
    /\ pc = "seed"
    /\ seed <= Len(SeedSeq)
    /\ LET x == SeedSeq[seed][1]
           y == SeedSeq[seed][2]
       IN  ~(PixelIdx(x, y) \notin visited /\ isWhite(x, y))
    /\ seed' = seed + 1
    /\ UNCHANGED <<width, height, data, pc, repairVars, edges, visited, tiles, stack, region, lastSize>>
    /\ UNCHANGED contourVars

\* floodFill(x, y) is called: its stack and running bounds are set up.
StartFill ==
    /\ pc = "seed"
    /\ seed <= Len(SeedSeq)
    /\ LET x == SeedSeq[seed][1]
           y == SeedSeq[seed][2]
       IN  /\ PixelIdx(x, y) \notin visited /\ isWhite(x, y)
           /\ stack' = <<<<x, y>>>>
           /\ region' = [pixels |-> {}, minX |-> x, maxX |-> x, minY |-> y, maxY |-> y]
    /\ pc' = "fill"
    /\ UNCHANGED <<width, height, data, repairVars, edges, visited, tiles, seed, lastSize>>
    /\ UNCHANGED contourVars

\* One iteration of floodFill's while loop.
FloodStep ==
    /\ pc = "fill"
    /\ stack # <<>>
    /\ LET x == stack[Len(stack)][1]
           y == stack[Len(stack)][2]
           rest == SubSeq(stack, 1, Len(stack) - 1)
       IN  IF x < 0 \/ x >= width \/ y < 0 \/ y >= height
           THEN stack' = rest /\ UNCHANGED <<visited, region>>
           ELSE IF PixelIdx(x, y) \in visited \/ ~isWhite(x, y)
           THEN stack' = rest /\ UNCHANGED <<visited, region>>
           ELSE IF <<x, y>> \in region.pixels
           THEN stack' = rest /\ UNCHANGED <<visited, region>>
           ELSE /\ FloodVisit(x, y)
                /\ stack' = rest \o << <<x + 1, y>>, <<x - 1, y>>, <<x, y + 1>>, <<x, y - 1>> >>
    /\ UNCHANGED <<width, height, data, pc, repairVars, edges, tiles, seed, lastSize>>
    /\ UNCHANGED contourVars

\* Tile ids that count from one.
TileIdFromOne(ts) == Len(ts) + 1

\* The id of the tile about to be pushed: tiles.length.
TileId(ts) == Len(ts)

\* floodFill returns; the region is pushed to tiles when the filter accepts it.
FinishFill ==
    /\ pc = "fill"
    /\ stack = <<>>
    /\ lastSize' = Cardinality(region.pixels)
    /\ IF AcceptRegion(Cardinality(region.pixels))
       THEN tiles' = Append(tiles,
                [id |-> TileId(tiles),
                 centerX |-> RoundHalf(region.minX + region.maxX),
                 centerY |-> RoundHalf(region.minY + region.maxY),
                 minX |-> region.minX, maxX |-> region.maxX,
                 minY |-> region.minY, maxY |-> region.maxY,
                 pixels |-> region.pixels])
       ELSE tiles' = tiles
    /\ seed' = seed + 1
    /\ pc' = "seed"
    /\ UNCHANGED <<width, height, data, repairVars, edges, visited, stack, region>>
    /\ UNCHANGED contourVars

(***************************************************************************)
(* extract-tiles-precise: simplifyContour                                  *)
(*                                                                         *)
(* A distance is kept as the exact fraction num / den of its square, so    *)
(* that the comparisons dist > maxDist and maxDist > tolerance are those   *)
(* of the real numbers the code computes with Math.sqrt.                   *)
(***************************************************************************)
perpendicularDistance(point, lineStart, lineEnd) ==
    LET dx == lineEnd.x - lineStart.x
        dy == lineEnd.y - lineStart.y
        normSq == dx * dx + dy * dy
        cross == dy * point.x - dx * point.y + lineEnd.x * lineStart.y
                 - lineEnd.y * lineStart.x
    IN  IF normSq = 0
        THEN [num |-> (point.x - lineStart.x) * (point.x - lineStart.x)
                      + (point.y - lineStart.y) * (point.y - lineStart.y),
              den |-> 1]
        ELSE [num |-> cross * cross, den |-> normSq]

\* The comparison dist > maxDist turned around.
DistLess(a, b) ==
    IF a.den = b.den THEN a.num < b.num ELSE a.num * b.den < b.num * a.den

\* dist > maxDist; two fractions with one denominator compare as their
\* numerators do.
DistGreater(a, b) ==
    IF a.den = b.den THEN a.num > b.num ELSE a.num * b.den > b.num * a.den

\* A test against twice the tolerance.
ExceedsTwiceTolerance(a, tolerance) == a.num > 4 * tolerance * tolerance * a.den

\* maxDist > tolerance
ExceedsTolerance(a, tolerance) == a.num > tolerance * tolerance * a.den

\* The for loop of douglasPeucker: the first point of largest distance from
\* the line through the two end points, as [maxDist, maxIndex].  maxIndex is
\* 1-based; it is 0, with maxDist 0, when no point has a distance above 0,
\* since the loop replaces maxDist only by a strictly greater distance.
FarthestFrom(points) ==
    LET end == Len(points)
        zero == [num |-> 0, den |-> 1]
        dist == [i \in 2..(end - 1) |->
                    perpendicularDistance(points[i], points[1], points[end])]
        largest == {i \in 2..(end - 1) :
                       /\ DistGreater(dist[i], zero)
                       /\ \A j \in 2..(end - 1) : ~DistGreater(dist[j], dist[i])}
    IN  IF largest = {} THEN [maxDist |-> zero, maxIndex |-> 0]
        ELSE LET first == CHOOSE i \in largest : \A j \in largest : i <= j
             IN  [maxDist |-> dist[first], maxIndex |-> first]

\* A recursion that keeps the split point in both halves.
RECURSIVE douglasPeuckerSplitTwice(_, _)
douglasPeuckerSplitTwice(points, tolerance) ==
    IF Len(points) <= 2 THEN points
    ELSE LET far == FarthestFrom(points)
         IN  IF ExceedsTolerance(far.maxDist, tolerance)
             THEN douglasPeuckerSplitTwice(SubSeq(points, 1, far.maxIndex), tolerance)
                  \o douglasPeuckerSplitTwice(SubSeq(points, far.maxIndex, Len(points)),
                                              tolerance)
             ELSE <<points[1], points[Len(points)]>>

\* A recursion that drops the split point from both halves.
RECURSIVE douglasPeuckerDropSplit(_, _)
douglasPeuckerDropSplit(points, tolerance) ==
    IF Len(points) <= 2 THEN points
    ELSE LET far == FarthestFrom(points)
         IN  IF ExceedsTolerance(far.maxDist, tolerance)
             THEN LET left == douglasPeuckerDropSplit(SubSeq(points, 1, far.maxIndex),
                                                      tolerance)
                      right == douglasPeuckerDropSplit(
                                   SubSeq(points, far.maxIndex, Len(points)), tolerance)
                  IN  SubSeq(left, 1, Len(left) - 1) \o Tail(right)
             ELSE <<points[1], points[Len(points)]>>

RECURSIVE douglasPeucker(_, _)
douglasPeucker(points, tolerance) ==
    IF Len(points) <= 2 THEN points
    ELSE LET far == FarthestFrom(points)
         IN  IF ExceedsTolerance(far.maxDist, tolerance)
             THEN LET left == douglasPeucker(SubSeq(points, 1, far.maxIndex), tolerance)
                      right == douglasPeucker(SubSeq(points, far.maxIndex, Len(points)),
                                              tolerance)
                  IN  SubSeq(left, 1, Len(left) - 1) \o right
             ELSE <<points[1], points[Len(points)]>>

\* A simplifier that returns nothing for a contour too short to simplify.
simplifyContourDropShort(points, tolerance) ==
    IF Len(points) < 3 THEN <<>> ELSE douglasPeucker(points, tolerance)

simplifyContour(points, tolerance) ==
    IF Len(points) < 3 THEN points ELSE douglasPeucker(points, tolerance)

(***************************************************************************)
(* extract-tiles-precise: extractPreciseContours, mooreNeighborTracing     *)
(***************************************************************************)
\* The eight directions counter-clockwise from E.
dirsCounterClockwise ==
    << <<1, 0>>, <<1, -1>>, <<0, -1>>, <<-1, -1>>, <<-1, 0>>, <<-1, 1>>, <<0, 1>>, <<1, 1>> >>

dirs == << <<1, 0>>, <<1, 1>>, <<0, 1>>, <<-1, 1>>, <<-1, 0>>, <<-1, -1>>, <<0, -1>>, <<1, -1>> >>

\* A start test that looks at the left neighbour instead of the right one.
StartCandidatesLeft(tile) ==
    {xy \in (tile.minX..tile.maxX) \X (tile.minY..tile.maxY) :
        /\ edges[PixelIdx(xy[1], xy[2])] = 1
        /\ xy[1] - 1 >= 0
        /\ edges[PixelIdx(xy[1] - 1, xy[2])] = 0
        /\ <<xy[1] - 1, xy[2]>> \in tile.pixels}

\* A start scan that also looks one pixel outside the bounding box.
StartCandidatesWide(tile) ==
    {xy \in (Max(tile.minX - 1, 0)..Min(tile.maxX + 1, width - 1))
            \X (Max(tile.minY - 1, 0)..Min(tile.maxY + 1, height - 1)) :
        /\ edges[PixelIdx(xy[1], xy[2])] = 1
        /\ xy[1] + 1 < width
        /\ edges[PixelIdx(xy[1] + 1, xy[2])] = 0
        /\ <<xy[1] + 1, xy[2]>> \in tile.pixels}

\* The pixels of the tile's bounding box that pass the start test.
StartCandidates(tile) ==
    {xy \in (tile.minX..tile.maxX) \X (tile.minY..tile.maxY) :
        /\ edges[PixelIdx(xy[1], xy[2])] = 1
        /\ xy[1] + 1 < width
        /\ edges[PixelIdx(xy[1] + 1, xy[2])] = 0
        /\ <<xy[1] + 1, xy[2]>> \in tile.pixels}

\* The candidate the row-by-row scan meets first.
FirstInScan(C) ==
    CHOOSE xy \in C : \A o \in C : xy[2] < o[2] \/ (xy[2] = o[2] /\ xy[1] <= o[1])

\* The four corners row by row instead of around the rectangle.
BoundingBoxRows(tile) ==
    << [x |-> tile.minX, y |-> tile.minY], [x |-> tile.maxX, y |-> tile.minY],
       [x |-> tile.minX, y |-> tile.maxY], [x |-> tile.maxX, y |-> tile.maxY] >>

\* The fallback polygon.
BoundingBoxPolygon(tile) ==
    << [x |-> tile.minX, y |-> tile.minY], [x |-> tile.maxX, y |-> tile.minY],
       [x |-> tile.maxX, y |-> tile.maxY], [x |-> tile.minX, y |-> tile.maxY] >>

\* The offsets i of the inner for loop at which a border pixel is in bounds.
BorderOffsets(x, y, d) ==
    {i \in 0..7 :
        LET nx == x + dirs[((d + i) % 8) + 1][1]
            ny == y + dirs[((d + i) % 8) + 1][2]
        IN  /\ ~(nx < 0 \/ nx >= width \/ ny < 0 \/ ny >= height)
            /\ edges[PixelIdx(nx, ny)] = 1}

MinOf(S) == CHOOSE m \in S : \A o \in S : m <= o

\* The record JSON.stringify writes for a tile: every field that is not
\* undefined, with its value.
Serialized(t) == [f \in DOMAIN t |-> t[f]]

\* extractPreciseContours starts on the next tile: the scan for a start pixel,
\* and the bounding-box fallback when the scan finds none.
FindStart ==
    /\ pc = "contours"
    /\ tileNo <= Len(tiles)
    /\ LET tile == tiles[tileNo]
           C == StartCandidates(tile)
       IN  IF C = {}
           THEN /\ result' = Append(result,
                       [id |-> tile.id, centerX |-> tile.centerX, centerY |-> tile.centerY,
                        minX |-> tile.minX, maxX |-> tile.maxX,
                        minY |-> tile.minY, maxY |-> tile.maxY,
                        pixels |-> tile.pixels,
                        polygon |-> BoundingBoxPolygon(tile)])
                /\ tileNo' = tileNo + 1
                /\ start' = <<>>
                /\ UNCHANGED <<pc, cur, dir, iterations, contour>>
           ELSE /\ start' = FirstInScan(C)
                /\ cur' = FirstInScan(C)
                /\ dir' = 0
                /\ iterations' = 0
                /\ contour' = <<>>
                /\ pc' = "trace"
                /\ UNCHANGED <<result, tileNo>>
    /\ UNCHANGED <<width, height, data, repairVars, segmentVars, warned, document>>

\* A do-while condition that ignores the walk being back on the start pixel.
LoopContinuesPastStart(xy, n) == n < maxIterations

\* A do-while condition that leaves the iteration cap out.
LoopContinuesUncapped(xy, n) == ~(xy = start)

\* The do-while condition: the walk is not back on the start pixel and the
\* cap is not reached.
LoopContinues(xy, n) == ~(xy = start) /\ n < maxIterations

\* One iteration of mooreNeighborTracing's do-while loop, on the function's
\* locals t = [cur, dir, iterations, contour, warned, exited]: the push, the
\* search for the next border pixel, the two breaks and the loop condition.
TraceIteration(t) ==
    LET pushed == Append(t.contour, [x |-> t.cur[1], y |-> t.cur[2]])
        found == BorderOffsets(t.cur[1], t.cur[2], t.dir)
    IN  IF found = {}
        THEN [t EXCEPT !.contour = pushed, !.exited = TRUE]
        ELSE LET newDir == (t.dir + MinOf(found)) % 8
                 nx == t.cur[1] + dirs[newDir + 1][1]
                 ny == t.cur[2] + dirs[newDir + 1][2]
                 n == t.iterations + 1
             IN  [cur |-> <<nx, ny>>,
                  dir |-> (newDir + 6) % 8,
                  iterations |-> n,
                  contour |-> pushed,
                  warned |-> IF n > maxIterations
                             THEN t.warned \cup {tiles[tileNo].id} ELSE t.warned,
                  exited |-> n > maxIterations \/ ~LoopContinues(<<nx, ny>>, n)]

TraceLocals ==
    [cur |-> cur, dir |-> dir, iterations |-> iterations, contour |-> contour,
     warned |-> warned, exited |-> FALSE]

\* The loop run for up to n more iterations, or until it exits.
RECURSIVE RunLoop(_, _)
RunLoop(t, n) ==
    IF t.exited \/ n = 0 THEN t
    ELSE IF n = 1 THEN TraceIteration(t)
    ELSE RunLoop(RunLoop(t, n \div 2), n - n \div 2)

\* The whole call: the break at iterations > maxIterations ends the loop in
\* its iteration maxIterations + 1 at the latest, whatever the loop condition.
mooreNeighborTracing(startX, startY) ==
    RunLoop([cur |-> <<startX, startY>>, dir |-> 0, iterations |-> 0,
             contour |-> <<>>, warned |-> warned, exited |-> FALSE],
            maxIterations + 1)

\* One iteration of the loop of the running trace.
TraceStep ==
    /\ pc = "trace"
    /\ LET t == TraceIteration(TraceLocals)
       IN  /\ cur' = t.cur
           /\ dir' = t.dir
           /\ iterations' = t.iterations
           /\ contour' = t.contour
           /\ warned' = t.warned
           /\ pc' = IF t.exited THEN "simplify" ELSE "trace"
    /\ UNCHANGED <<width, height, data, repairVars, segmentVars, result, tileNo, start, document>>

\* mooreNeighborTracing called and returned.
TraceRun ==
    /\ pc = "trace"
    /\ LET t == mooreNeighborTracing(start[1], start[2])
       IN  /\ t.exited
           /\ cur' = t.cur
           /\ dir' = t.dir
           /\ iterations' = t.iterations
           /\ contour' = t.contour
           /\ warned' = t.warned
           /\ pc' = "simplify"
    /\ UNCHANGED <<width, height, data, repairVars, segmentVars, result, tileNo, start, document>>

\* The trace has returned: the contour is simplified and the tile pushed.
\* The pushed record's pixels field is undefined, which is modelled as the
\* record having no such field.
Simplify ==
    /\ pc = "simplify"
    /\ LET tile == tiles[tileNo]
       IN  result' = Append(result,
                [id |-> tile.id, centerX |-> tile.centerX, centerY |-> tile.centerY,
                 minX |-> tile.minX, maxX |-> tile.maxX,
                 minY |-> tile.minY, maxY |-> tile.maxY,
                 polygon |-> simplifyContour(contour, SimplifyTolerance)])
    /\ tileNo' = tileNo + 1
    /\ pc' = "contours"
    /\ UNCHANGED <<width, height, data, repairVars, segmentVars,
                   start, cur, dir, iterations, contour, warned, document>>

\* The seed loops have ended: extractPreciseContours is called.
SeedsDone ==
    /\ pc = "seed"
    /\ seed > Len(SeedSeq)
    /\ pc' = "contours"
    /\ tileNo' = 1
    /\ UNCHANGED <<width, height, data, repairVars, segmentVars>>
    /\ UNCHANGED <<result, start, cur, dir, iterations, contour, warned, document>>

\* extractPreciseContours has returned: tile-data.json is written.
WriteDocument ==
    /\ pc = "contours"
    /\ tileNo > Len(tiles)
    /\ document' = [width |-> width, height |-> height,
                    tiles |-> [i \in 1..Len(result) |-> Serialized(result[i])]]
    /\ pc' = "done"
    /\ UNCHANGED <<width, height, data, repairVars, segmentVars>>
    /\ UNCHANGED <<result, tileNo, start, cur, dir, iterations, contour, warned>>

NextExtract ==
    \/ DetectEdges
    \/ SeedSkip
    \/ StartFill
    \/ FloodStep
    \/ FinishFill
    \/ SeedsDone
    \/ FindStart
    \/ TraceStep
    \/ Simplify
    \/ WriteDocument

SpecExtract == InitExtract /\ [][NextExtract]_vars

(***************************************************************************)
(* mooreNeighborTracing on its own.  The edge map is either that of a      *)
(* small image with any set of dark interior pixels, or that of an image   *)
(* three rows high whose middle row is one straight border line, long      *)
(* enough for the walk out and back along it to meet the iteration cap.    *)
(* The start pixel is any pixel that passes the start test of              *)
(* extractPreciseContours.  Of its tile argument the function reads only   *)
(* the id.                                                                 *)
(***************************************************************************)
InnerPixels(w, h) ==
    {p \in 0..(w * h - 1) : p % w >= 1 /\ p % w < w - 1 /\ p \div w >= 1 /\ p \div w < h - 1}

\* Lengths of the straight lines: the walk along a line of n pixels comes
\* back to the start after 2 * (n - 1) iterations.
LineLengths == {maxIterations \div 2 + 1, maxIterations \div 2 + 2}

LinePixels(n) == {(n + 2) + x : x \in 1..n}

TraceStarts ==
    {xy \in (0..(width - 1)) \X (0..(height - 1)) :
        /\ edges[PixelIdx(xy[1], xy[2])] = 1
        /\ xy[1] + 1 < width
        /\ edges[PixelIdx(xy[1] + 1, xy[2])] = 0}

InitTrace ==
    /\ \/ /\ width = TraceWidth
          /\ height = TraceHeight
          /\ \E D \in SUBSET InnerPixels(TraceWidth, TraceHeight) :
                data = MaskOf(TraceWidth, TraceHeight, D)
       \/ \E n \in LineLengths :
             /\ width = n + 2
             /\ height = 3
             /\ data = MaskOf(n + 2, 3, LinePixels(n))
    /\ pc = "trace"
    /\ pass = 0
    /\ outputData = <<>>
    /\ swept = {}
    /\ pixelsFilled = 0
    /\ edges = DetectedEdges(data)
    /\ visited = {}
    /\ tiles = <<[id |-> 0]>>
    /\ seed = 0
    /\ stack = <<>>
    /\ region = NoRegion
    /\ lastSize = 0
    /\ result = <<>>
    /\ tileNo = 1
    /\ \E xy \in TraceStarts : start = xy /\ cur = xy
    /\ dir = 0
    /\ iterations = 0
    /\ contour = <<>>
    /\ warned = {}
    /\ document = <<>>

NextTrace == TraceRun

SpecTrace == InitTrace /\ [][NextTrace]_vars

(***************************************************************************)
(* simplifyContour on its own: called with any list of up to MaxPoints     *)
(* points of a small grid and any whole tolerance up to MaxTolerance.  The *)
(* list is held in contour; the call's tolerance and return value are put  *)
(* in result.                                                              *)
(***************************************************************************)
\* The grid is two columns wide.
GridPoints == {[x |-> a, y |-> b] : a \in 0..1, b \in 0..SimplifyMaxY}

PointLists == UNION {[1..n -> GridPoints] : n \in 0..MaxPoints}

InitSimplify ==
    /\ width = 0
    /\ height = 0
    /\ data = <<>>
    /\ pc = "call"
    /\ pass = 0
    /\ outputData = <<>>
    /\ swept = {}
    /\ pixelsFilled = 0
    /\ IdleSegment
    /\ result = <<>>
    /\ tileNo = 0
    /\ start = <<>>
    /\ cur = <<>>
    /\ dir = 0
    /\ iterations = 0
    /\ contour \in PointLists
    /\ warned = {}
    /\ document = <<>>

\* simplifyContour(points, tolerance) called and returned.
ApplySimplify ==
    /\ pc = "call"
    /\ \E tolerance \in 0..MaxTolerance :
          result' = <<[tolerance |-> tolerance,
                       polygon |-> simplifyContour(contour, tolerance)]>>
    /\ pc' = "returned"
    /\ UNCHANGED <<width, height, data, repairVars, segmentVars,
                   tileNo, start, cur, dir, iterations, contour, warned, document>>

NextSimplify == ApplySimplify

SpecSimplify == InitSimplify /\ [][NextSimplify]_vars

(***************************************************************************)
(* The area filter on its own: floodFill has just returned a region of n   *)
(* pixels, n within BandWindow of one of the two thresholds.  Only the     *)
(* region's size is read by the filter, so its pixels are stood for by     *)
(* 1..n and the image is left out.                                         *)
(***************************************************************************)
BandSizes ==
    {n \in (minArea - BandWindow)..(minArea + BandWindow) : n >= 1}
    \cup ((maxArea - BandWindow)..(maxArea + BandWindow))

InitBand ==
    /\ width = 0
    /\ height = 0
    /\ data = <<>>
    /\ pc = "fill"
    /\ pass = 0
    /\ outputData = <<>>
    /\ swept = {}
    /\ pixelsFilled = 0
    /\ edges = <<>>
    /\ visited = {}
    /\ tiles = <<>>
    /\ seed = 1
    /\ stack = <<>>
    /\ \E n \in BandSizes :
          region = [pixels |-> 1..n, minX |-> 0, maxX |-> 0, minY |-> 0, maxY |-> 0]
    /\ lastSize = 0
    /\ IdleContour

NextBand == FinishFill

SpecBand == InitBand /\ [][NextBand]_vars

(***************************************************************************)
(* The two scripts run one after the other: repair-borders.js writes       *)
(* map-repaired.png and extract-tiles-precise loads it.  The images are    *)
(* white canvases with border lines one pixel wide:                        *)
(*   - a square border around a square interior in the middle of the       *)
(*     image, whole or with a gap in the middle of its top side;           *)
(*   - a rectangular border around two square rooms side by side, parted   *)
(*     by a border column that is whole or has a gap half-way down.        *)
(* floodFill is taken as one step from call to return.                     *)
(***************************************************************************)
\* The border, one pixel wide, just outside the box of sw x sh pixels whose
\* top left pixel is (x0, y0), in an image w pixels wide.
RectBorder(w, x0, y0, sw, sh) ==
    {xy[2] * w + xy[1] : xy \in
        {xy \in ((x0 - 1)..(x0 + sw)) \X ((y0 - 1)..(y0 + sh)) :
            \/ xy[1] = x0 - 1 \/ xy[1] = x0 + sw
            \/ xy[2] = y0 - 1 \/ xy[2] = y0 + sh}}

\* The top left pixel of the square interior of a w x h image.
SquareX0(w) == w \div 2 - InteriorSide \div 2
SquareY0(h) == h \div 2 - InteriorSide \div 2

\* The pixels left out of the square's top side.
SquareGapPixels(w, h, gap) ==
    {(SquareY0(h) - 1) * w + x :
        x \in (w \div 2 - gap \div 2)..(w \div 2 - gap \div 2 + gap - 1)}

SquareScene(w, h, gap) ==
    [w |-> w, h |-> h,
     dark |-> RectBorder(w, SquareX0(w), SquareY0(h), InteriorSide, InteriorSide)
                 \ SquareGapPixels(w, h, gap)]

\* The image of the two rooms: RoomMargin pixels from the image edge to the
\* rooms on every side, the border being the innermost of them.
RoomsWidth == 2 * RoomSide + 1 + 2 * RoomMargin
RoomsHeight == RoomSide + 2 * RoomMargin
DividerX == RoomMargin + RoomSide

\* The pixels left out of the column between the two rooms.
DividerGapPixels(gap) ==
    {y * RoomsWidth + DividerX :
        y \in (RoomMargin + RoomSide \div 2 - gap \div 2)
                ..(RoomMargin + RoomSide \div 2 - gap \div 2 + gap - 1)}

RoomsScene(gap) ==
    [w |-> RoomsWidth, h |-> RoomsHeight,
     dark |-> (RectBorder(RoomsWidth, RoomMargin, RoomMargin, 2 * RoomSide + 1, RoomSide)
                  \cup {y * RoomsWidth + DividerX :
                           y \in RoomMargin..(RoomMargin + RoomSide - 1)})
                 \ DividerGapPixels(gap)]

PipelineScenes ==
    {SquareScene(EndToEndSize, EndToEndSize, SquareGap),
     SquareScene(RoomsWidth, RoomsHeight, 0),
     RoomsScene(0), RoomsScene(DividerGap)}

\* An iteration that adds the pixel to the region without marking it visited.
FloodIterationUnmarked(s) ==
    LET x == s.stack[Len(s.stack)][1]
        y == s.stack[Len(s.stack)][2]
        rest == SubSeq(s.stack, 1, Len(s.stack) - 1)
    IN  IF x < 0 \/ x >= width \/ y < 0 \/ y >= height
        THEN [s EXCEPT !.stack = rest]
        ELSE IF PixelIdx(x, y) \in s.visited \/ ~isWhite(x, y)
        THEN [s EXCEPT !.stack = rest]
        ELSE IF <<x, y>> \in s.region.pixels
        THEN [s EXCEPT !.stack = rest]
        ELSE [stack |-> rest \o << <<x + 1, y>>, <<x - 1, y>>, <<x, y + 1>>, <<x, y - 1>> >>,
              visited |-> s.visited,
              region |-> [pixels |-> s.region.pixels \cup {<<x, y>>},
                          minX |-> Min(s.region.minX, x), maxX |-> Max(s.region.maxX, x),
                          minY |-> Min(s.region.minY, y), maxY |-> Max(s.region.maxY, y)]]

\* One iteration of floodFill's while loop on the function's locals
\* s = [stack, visited, region].
FloodIteration(s) ==
    LET x == s.stack[Len(s.stack)][1]
        y == s.stack[Len(s.stack)][2]
        rest == SubSeq(s.stack, 1, Len(s.stack) - 1)
    IN  IF x < 0 \/ x >= width \/ y < 0 \/ y >= height
        THEN [s EXCEPT !.stack = rest]
        ELSE IF PixelIdx(x, y) \in s.visited \/ ~isWhite(x, y)
        THEN [s EXCEPT !.stack = rest]
        ELSE IF <<x, y>> \in s.region.pixels
        THEN [s EXCEPT !.stack = rest]
        ELSE [stack |-> rest \o << <<x + 1, y>>, <<x - 1, y>>, <<x, y + 1>>, <<x, y - 1>> >>,
              visited |-> s.visited \cup {PixelIdx(x, y)},
              region |-> [pixels |-> s.region.pixels \cup {<<x, y>>},
                          minX |-> Min(s.region.minX, x), maxX |-> Max(s.region.maxX, x),
                          minY |-> Min(s.region.minY, y), maxY |-> Max(s.region.maxY, y)]]

\* The while loop run for up to n more iterations, or until the stack is empty.
RECURSIVE RunFill(_, _)
RunFill(s, n) ==
    IF s.stack = <<>> \/ n = 0 THEN s
    ELSE IF n = 1 THEN FloodIteration(s)
    ELSE RunFill(RunFill(s, n \div 2), n - n \div 2)

\* The loop pops the start pixel and at most four pixels for each pixel it
\* adds to the region.
FillIterations == 4 * width * height + 1

InitPipeline ==
    /\ \E scene \in PipelineScenes :
          /\ width = scene.w
          /\ height = scene.h
          /\ data = MaskOf(scene.w, scene.h, scene.dark)
    /\ pc = "repair"
    /\ pass = 0
    /\ outputData = data
    /\ swept = {}
    /\ pixelsFilled = 0
    /\ IdleSegment
    /\ IdleContour

\* extract-tiles-precise loads the image the repair has saved.
LoadRepaired ==
    /\ pc = "saved"
    /\ pc' = "edges"
    /\ UNCHANGED <<width, height, data, repairVars, segmentVars, contourVars>>

\* floodFill's while loop from the first pop to the empty stack.
FillRun ==
    /\ pc = "fill"
    /\ stack # <<>>
    /\ LET s == RunFill([stack |-> stack, visited |-> visited, region |-> region],
                        FillIterations)
       IN  /\ s.stack = <<>>
           /\ stack' = s.stack
           /\ visited' = s.visited
           /\ region' = s.region
    /\ UNCHANGED <<width, height, data, pc, repairVars, edges, tiles, seed, lastSize>>
    /\ UNCHANGED contourVars

NextPipeline ==
    \/ RepairPass
    \/ SaveRepaired
    \/ LoadRepaired
    \/ DetectEdges
    \/ SeedSkip
    \/ StartFill
    \/ FillRun
    \/ FinishFill
    \/ SeedsDone
    \/ FindStart
    \/ TraceStep
    \/ Simplify
    \/ WriteDocument

SpecPipeline == InitPipeline /\ [][NextPipeline]_vars

(***************************************************************************)
(* Claims about repair-borders.js                                          *)
(***************************************************************************)
IsDark(v) == v < DarkThreshold
Ring == {p \in Pixels : XOf(p) = 0 \/ XOf(p) = width - 1 \/ YOf(p) = 0 \/ YOf(p) = height - 1}

\* C1: no pass turns a border (dark) pixel into a non-border pixel: every
\* pixel that is dark before a step of the repair is dark after it.
C1_Monotonic ==
    [][\A p \in Pixels : IsDark(data[p]) => IsDark(data'[p])]_vars

\* The three passes ran and filled a pixel, and a dark pixel of the input is
\* still in the buffer.
C1_Witness ==
    /\ pc = "saved"
    /\ \E p \in Pixels : data[p] = InputDark
    /\ \E q \in Pixels : data[q] = 0

\* C2: when a pass has visited every pixel, in whatever order, its output
\* buffer and its changed-pixel count are those of the pass in loop order.
C2_OrderIndependent ==
    (pc = "sweep" /\ swept = Interior) =>
        /\ outputData = Sweep(data).out
        /\ pixelsFilled = Sweep(data).filled

\* A pass has visited every pixel and filled at least one of them.
C2_Witness ==
    /\ pc = "sweep"
    /\ swept = Interior
    /\ Cardinality(Interior) >= 2
    /\ pixelsFilled > 0
    /\ pixelsFilled < Cardinality(Interior)

\* The rule of claim C3 for pixel (x, y) of mask d.
C3_Rule(d, x, y) ==
    LET t == isDarkAt(d, x, y - 1)
        b == isDarkAt(d, x, y + 1)
        l == isDarkAt(d, x - 1, y)
        r == isDarkAt(d, x + 1, y)
        tl == isDarkAt(d, x - 1, y - 1)
        tr == isDarkAt(d, x + 1, y - 1)
        bl == isDarkAt(d, x - 1, y + 1)
        br == isDarkAt(d, x + 1, y + 1)
        count == Cardinality({i \in 1..8 : <<t, b, l, r, tl, tr, bl, br>>[i]})
    IN  \/ (t /\ b) \/ (l /\ r) \/ (tl /\ br) \/ (tr /\ bl)
        \/ (t /\ l /\ ~tl) \/ (t /\ r /\ ~tr) \/ (b /\ l /\ ~bl) \/ (b /\ r /\ ~br)
        \/ count >= 3
        \/ /\ count >= 2
           /\ \/ (t /\ isDarkAt(d, x, y + 2)) \/ (b /\ isDarkAt(d, x, y - 2))
              \/ (l /\ isDarkAt(d, x + 2, y)) \/ (r /\ isDarkAt(d, x - 2, y))

NonEdge(p) ==
    /\ XOf(p) >= 1 /\ XOf(p) <= width - 2
    /\ YOf(p) >= 1 /\ YOf(p) <= height - 2

\* C3: in one pass a non-border, non-edge pixel becomes border exactly when
\* rule (a), (b), (c) or (d) holds of it in the previous mask, and every
\* other pixel keeps its value.
C3_FillRule ==
    [][pass' = pass + 1 =>
        \A p \in Pixels :
            IF NonEdge(p) /\ ~IsDark(data[p]) /\ C3_Rule(data, XOf(p), YOf(p))
            THEN IsDark(data'[p])
            ELSE data'[p] = data[p]]_vars

\* A pass filled some pixel and left some non-border, non-edge pixel alone.
C3_Witness ==
    /\ pass >= 1
    /\ \E p \in Pixels : data[p] = 0
    /\ \E q \in Pixels : NonEdge(q) /\ ~IsDark(data[q])

\* Every dark pixel lies on a complete dark row or a complete dark column:
\* the border lines run from image edge to image edge without a gap.
IntactLines(d) ==
    /\ \E p \in Pixels : IsDark(d[p])
    /\ \A p \in Pixels :
          IsDark(d[p]) =>
              \/ \A x \in 0..(width - 1) : IsDark(d[PixelIdx(x, YOf(p))])
              \/ \A y \in 0..(height - 1) : IsDark(d[PixelIdx(XOf(p), y)])

\* C4: a pass over a mask of intact, gap-free border lines changes zero
\* pixels.
C4_Idempotent ==
    [][(pass' = pass + 1 /\ IntactLines(data)) => pixelsFilled' = 0]_vars

\* C5 as claimed: after any number of passes every pixel of the outermost
\* ring is non-border.
C5_RingNonBorder ==
    pass >= 1 => \A p \in Ring : ~IsDark(data[p])

\* C5: no step of the repair writes a pixel of the outermost ring: each keeps
\* the value it had in the input, so a ring pixel that is non-border in the
\* input is non-border after any number of passes.
C5_RingUntouched ==
    [][\A p \in Ring : data'[p] = data[p]]_vars

\* The three passes ran and filled a pixel next to the ring, and the ring
\* holds a dark and a non-dark pixel of the input.
C5_Witness ==
    /\ pc = "saved"
    /\ \E p \in Ring : data[p] = InputDark
    /\ \E p \in Ring : data[p] = InputLight
    /\ \E q \in Pixels : data[q] = 0 /\ (XOf(q) = 1 \/ YOf(q) = 1)

(***************************************************************************)
(* Claims about the segmentation and the contour stage                     *)
(***************************************************************************)
AllXY == {<<p % width, p \div width>> : p \in Pixels}
Adjacent4(xy) ==
    {<<xy[1] + 1, xy[2]>>, <<xy[1] - 1, xy[2]>>, <<xy[1], xy[2] + 1>>, <<xy[1], xy[2] - 1>>}

\* The pixels of `open` joined to the pixels of `seen` by a 4-connected path
\* inside `open`.
RECURSIVE Grow(_, _, _)
Grow(open, seen, frontier) ==
    LET next == ((UNION {Adjacent4(q) : q \in frontier}) \cap open) \ seen
    IN  IF next = {} THEN seen ELSE Grow(open, seen \cup next, next)

Component(open, xy) == IF xy \in open THEN Grow(open, {xy}, {xy}) ELSE {}

RECURSIVE AllComponents(_)
AllComponents(open) ==
    IF open = {} THEN {}
    ELSE LET c == Component(open, CHOOSE xy \in open : TRUE)
         IN  {c} \cup AllComponents(open \ c)

\* Open space as the edge map classifies it, and the non-dark pixels of the image.
OpenInEdges == {xy \in AllXY : edges[PixelIdx(xy[1], xy[2])] = 0}
OpenInImage == {xy \in AllXY : ~IsDark(data[PixelIdx(xy[1], xy[2])])}

\* The sampled seed points: every SeedStride pixels from SeedMargin, short of
\* the far margin.
SeedPoints ==
    {xy \in AllXY :
        /\ xy[1] >= SeedMargin /\ xy[1] < width - SeedMargin
        /\ xy[2] >= SeedMargin /\ xy[2] < height - SeedMargin
        /\ (xy[1] - SeedMargin) % SeedStride = 0
        /\ (xy[2] - SeedMargin) % SeedStride = 0}

InBand(n) == n \in (minArea + 1)..(maxArea - 1)

TilesDisjoint ==
    \A i, j \in 1..Len(tiles) : i # j => tiles[i].pixels \cap tiles[j].pixels = {}

TilePixels == UNION {tiles[i].pixels : i \in 1..Len(tiles)}

\* C6 as claimed: the returned regions are disjoint and hold every open-space
\* pixel that is 4-connected to a sampled seed point.
C6_CoversAllSeeded ==
    pc = "done" =>
        /\ TilesDisjoint
        /\ \A s \in SeedPoints : Component(OpenInEdges, s) \subseteq TilePixels

\* C6: the returned regions are disjoint, and they hold every open-space pixel
\* that is 4-connected to a sampled seed point whose open-space component has
\* more than minArea and fewer than maxArea pixels.
C6_DisjointAndCovering ==
    /\ TilesDisjoint
    /\ pc = "done" =>
          \A s \in SeedPoints :
              InBand(Cardinality(Component(OpenInEdges, s))) =>
                  Component(OpenInEdges, s) \subseteq TilePixels

\* Segmentation ended with two regions, each holding a seed point.
C6_Witness ==
    /\ pc = "done"
    /\ Len(tiles) = 2
    /\ \A i \in 1..2 : tiles[i].pixels \cap SeedPoints # {}

\* C7: the pixels of a returned region are joined pairwise by 4-connected
\* paths of non-dark pixels of the image.
C7_NeverMerged ==
    pc = "done" =>
        \A i \in 1..Len(tiles) :
            tiles[i].pixels \subseteq
                Component(OpenInImage, CHOOSE xy \in tiles[i].pixels : TRUE)

\* The 4-connected sets of non-dark pixels of the image that are surrounded
\* by border pixels: those that hold no pixel of the outermost ring.
EnclosedRegions ==
    {R \in AllComponents(OpenInImage) :
        \A xy \in R : PixelIdx(xy[1], xy[2]) \notin Ring}

\* C8 as claimed: segmentation returns as many regions as the image has
\* enclosed regions, one per enclosed region and of its pixel count.
C8_OnePerEnclosed ==
    pc = "done" =>
        /\ Len(tiles) = Cardinality(EnclosedRegions)
        /\ \A R \in EnclosedRegions :
              \E i \in 1..Len(tiles) :
                  /\ tiles[i].pixels \cap R # {}
                  /\ Cardinality(tiles[i].pixels) = Cardinality(R)

\* The open-space components of the edge map that hold a seed point and have
\* more than minArea and fewer than maxArea pixels.
SeededInBand ==
    {R \in AllComponents(OpenInEdges) :
        R \cap SeedPoints # {} /\ InBand(Cardinality(R))}

\* C8: segmentation returns exactly one region for each open-space component
\* of the edge map that holds a seed point and has more than minArea and
\* fewer than maxArea pixels, made of exactly that component's pixels, and no
\* other region.
C8_OnePerSeededInBand ==
    pc = "done" =>
        /\ Len(tiles) = Cardinality(SeededInBand)
        /\ \A R \in SeededInBand : \E i \in 1..Len(tiles) : tiles[i].pixels = R

\* Segmentation ended on an image with two enclosed regions, both seeded and
\* in the band, and returned two regions.
C8_Witness ==
    /\ pc = "done"
    /\ Len(tiles) = 2
    /\ Cardinality(EnclosedRegions) = 2
    /\ Cardinality(SeededInBand) = 2

\* C9 as claimed: a region is accepted exactly when its pixel count lies in
\* the closed band minArea..maxArea.
C9_ClosedBand ==
    (pc = "seed" /\ lastSize > 0) => (Len(tiles) = 1 <=> lastSize \in minArea..maxArea)

\* C9: a region is accepted exactly when its pixel count is more than minArea
\* and less than maxArea; a region of exactly minArea or exactly maxArea
\* pixels is discarded like every other region outside, and the filter ends
\* in both cases.
C9_OpenBand ==
    /\ pc \in {"fill", "seed"}
    /\ (pc = "seed" /\ lastSize > 0) =>
          /\ Len(tiles) = 1 <=> (lastSize > minArea /\ lastSize < maxArea)
          /\ Len(tiles) <= 1
          /\ \A i \in 1..Len(tiles) : Cardinality(tiles[i].pixels) = lastSize

\* The filter has discarded a region of exactly maxArea pixels.
C9_Witness ==
    /\ pc = "seed"
    /\ lastSize = maxArea
    /\ tiles = <<>>

\* C10: every tile the contour stage has pushed has a non-empty polygon: the
\* four bounding-box corners on the fallback path, and otherwise the
\* simplified Moore trace, which holds at least its start pixel; when the
\* stage ends every accepted region has its tile.
C10_NonEmptyPolygon ==
    /\ \A i \in 1..Len(result) :
          /\ Len(result[i].polygon) >= 1
          /\ "pixels" \in DOMAIN result[i] =>
                result[i].polygon = BoundingBoxPolygon(tiles[i])
    /\ pc = "simplify" =>
          /\ Len(contour) >= 1
          /\ contour[1] = [x |-> start[1], y |-> start[2]]
    /\ pc = "done" =>
          /\ Len(result) = Len(tiles)
          /\ \A i \in 1..Len(document.tiles) : Len(document.tiles[i].polygon) >= 1

\* The stage ended with one tile on the fallback path and one traced tile.
C10_Witness ==
    /\ pc = "done"
    /\ \E i, j \in 1..Len(result) :
          /\ "pixels" \in DOMAIN result[i]
          /\ "pixels" \notin DOMAIN result[j]
          /\ Len(result[j].polygon) >= 1

(***************************************************************************)
(* Claims about mooreNeighborTracing                                       *)
(***************************************************************************)
StartPoint == [x |-> start[1], y |-> start[2]]

\* How the trace that has just returned left its loop.
Returned == pc = "simplify" /\ iterations >= 1 /\ cur = start
DeadEnd == pc = "simplify" /\ iterations = 0
CapReached == pc = "simplify" /\ iterations = maxIterations

Adjacent8(a, b) ==
    /\ a # b
    /\ a.x - b.x \in -1..1
    /\ a.y - b.y \in -1..1

\* C11 as claimed: a trace that ended because the walk came back to the start
\* pixel returns a contour whose first and last points are the same.
C11_ClosedLoop ==
    Returned => contour[1] = contour[Len(contour)]

\* C11: the contour begins with the start pixel and never holds it again; a
\* trace that ended because the walk came back to the start pixel returns at
\* least two points, the last of them a neighbour of the start pixel and not
\* the start pixel itself.
C11_OpenLoop ==
    (pc \in {"trace", "simplify"} /\ contour # <<>>) =>
        /\ contour[1] = StartPoint
        /\ \A i \in 2..Len(contour) : contour[i] # StartPoint
        /\ Returned => /\ Len(contour) >= 2
                       /\ Adjacent8(contour[Len(contour)], StartPoint)

\* A walk around at least four border pixels came back to the start pixel.
C11_Witness ==
    /\ Returned
    /\ Len(contour) >= 4
    /\ Cardinality({contour[i] : i \in 1..Len(contour)}) >= 4

\* C14: every call of mooreNeighborTracing returns: its loop exits within
\* maxIterations + 1 iterations.  When it has returned, the walk is back on
\* the start pixel, or on a pixel with no neighbouring border pixel, or the
\* iteration counter is at maxIterations, and the contour has no more than
\* maxIterations points.
C14_Terminates ==
    /\ pc = "trace" => mooreNeighborTracing(start[1], start[2]).exited
    /\ pc = "simplify" =>
          /\ Returned \/ DeadEnd \/ CapReached
          /\ Len(contour) <= maxIterations

\* A trace was stopped by the cap away from the start pixel, with
\* maxIterations points gathered.
C14_Witness ==
    /\ CapReached
    /\ cur # start
    /\ Len(contour) = maxIterations

\* C15 as claimed: a trace stopped by the cap away from the start pixel has
\* returned a non-empty contour and logged the max-iterations warning for
\* its tile.
C15_CapWarned ==
    (CapReached /\ cur # start) =>
        /\ contour # <<>>
        /\ tiles[tileNo].id \in warned

(***************************************************************************)
(* Claims about extractPreciseContours                                     *)
(***************************************************************************)
\* C12: a tile for which the scan finds no start pixel is never traced; it
\* is pushed with the four corners of its bounding box as polygon, in the
\* order (minX,minY), (maxX,minY), (maxX,maxY), (minX,maxY), and the loop
\* goes on, so that every tile has its record in the result.
C12_Fallback ==
    /\ pc = "trace" => StartCandidates(tiles[tileNo]) # {}
    /\ pc = "done" =>
          /\ Len(result) = Len(tiles)
          /\ \A i \in 1..Len(tiles) :
                StartCandidates(tiles[i]) = {} =>
                    /\ result[i].id = tiles[i].id
                    /\ result[i].polygon =
                          << [x |-> tiles[i].minX, y |-> tiles[i].minY],
                             [x |-> tiles[i].maxX, y |-> tiles[i].minY],
                             [x |-> tiles[i].maxX, y |-> tiles[i].maxY],
                             [x |-> tiles[i].minX, y |-> tiles[i].maxY] >>

\* Two tiles were found, the first had no start pixel, and both were pushed.
C12_Witness ==
    /\ pc = "done"
    /\ Len(tiles) = 2
    /\ Len(result) = 2
    /\ StartCandidates(tiles[1]) = {}
    /\ tiles[1].minX < tiles[1].maxX
    /\ tiles[1].minY < tiles[1].maxY

\* C13: the start pixel of a trace is a border pixel whose right neighbour
\* is inside the image, is not a border pixel and belongs to the pixel set
\* of the tile being traced.
C13_StartOnRegion ==
    pc \in {"trace", "simplify"} =>
        /\ edges[PixelIdx(start[1], start[2])] = 1
        /\ start[1] + 1 < width
        /\ edges[PixelIdx(start[1] + 1, start[2])] = 0
        /\ <<start[1] + 1, start[2]>> \in tiles[tileNo].pixels

\* A trace was started and has walked on from its start pixel.
C13_Witness ==
    /\ pc = "trace"
    /\ iterations >= 1
    /\ cur # start

\* C21: extractPreciseContours pushes one record for each tile it is given,
\* in the order of the tiles, whether the tile was traced or got the
\* bounding-box polygon; the record keeps the tile's id and centre; and the
\* ids of the tiles are 0, 1, 2, ... in the order the regions were accepted.
C21_OnePerRegion ==
    /\ \A i \in 1..Len(tiles) : tiles[i].id = i - 1
    /\ pc \in {"contours", "trace", "simplify", "done"} => Len(result) = tileNo - 1
    /\ Len(result) <= Len(tiles)
    /\ \A i \in 1..Len(result) :
          /\ result[i].id = tiles[i].id
          /\ result[i].centerX = tiles[i].centerX
          /\ result[i].centerY = tiles[i].centerY
    /\ pc = "done" => Len(result) = Len(tiles)

\* The stage returned two records: the first, with id 0, traced, and the
\* second, with id 1, on the fallback path.
C21_Witness ==
    /\ pc = "done"
    /\ Len(result) = 2
    /\ result[1].id = 0
    /\ result[2].id = 1
    /\ "pixels" \notin DOMAIN result[1]
    /\ "pixels" \in DOMAIN result[2]

(***************************************************************************)
(* Claims about simplifyContour                                            *)
(***************************************************************************)
Simplified == result[1].polygon

\* C16: simplifyContour returns no more points than it was given, and at
\* least two points when it was given at least two.
C16_NeverMore ==
    pc = "returned" =>
        /\ Len(Simplified) <= Len(contour)
        /\ Len(contour) >= 2 => Len(Simplified) >= 2

\* A list of four points came back as three: one point dropped, one inner
\* point kept.
C16_Witness ==
    /\ pc = "returned"
    /\ Len(contour) = 4
    /\ Len(Simplified) = 3

\* C17 as claimed: with tolerance 0 the list returned is the list given.
C17_Identity ==
    (pc = "returned" /\ result[1].tolerance = 0) => Simplified = contour

\* Three points on one line, or two of them equal.
InLine(a, b, c) == (b.x - a.x) * (c.y - a.y) - (b.y - a.y) * (c.x - a.x) = 0

NoThreeInLine(points) ==
    \A i \in 1..(Len(points) - 2) : ~InLine(points[i], points[i + 1], points[i + 2])

\* C17: with tolerance 0 the list returned is the list given whenever the
\* list has fewer than 3 points or no three consecutive points of it lie on
\* one line; in every case the list returned begins and ends as the list
\* given does.
C17_IdentityOffLine ==
    (pc = "returned" /\ result[1].tolerance = 0) =>
        /\ (Len(contour) < 3 \/ NoThreeInLine(contour)) => Simplified = contour
        /\ Len(contour) >= 1 =>
              /\ Simplified[1] = contour[1]
              /\ Simplified[Len(Simplified)] = contour[Len(contour)]

\* Four points, no three consecutive ones in line, came back unchanged.
C17_Witness ==
    /\ pc = "returned"
    /\ result[1].tolerance = 0
    /\ Len(contour) = 4
    /\ NoThreeInLine(contour)
    /\ Simplified = contour

\* The points given, each with its position in the list.
Tagged(points) ==
    [i \in 1..Len(points) |-> [x |-> points[i].x, y |-> points[i].y, i |-> i]]

\* The points simplifyContour keeps, each with its position in the list given.
Kept(points, tolerance) == simplifyContour(Tagged(points), tolerance)

WithinTolerance(point, lineStart, lineEnd, tolerance) ==
    LET dx == lineEnd.x - lineStart.x
        dy == lineEnd.y - lineStart.y
        cross == dy * point.x - dx * point.y + lineEnd.x * lineStart.y
                 - lineEnd.y * lineStart.x
    IN  cross * cross <= tolerance * tolerance * (dx * dx + dy * dy)

\* C18: the points returned are points of the list given, in its order, and
\* every point dropped is within the tolerance of the line through the two
\* consecutive returned points between which it stood.
C18_WithinTolerance ==
    pc = "returned" =>
        LET t == result[1].tolerance
            K == Kept(contour, t)
        IN  /\ Simplified = [k \in 1..Len(K) |-> [x |-> K[k].x, y |-> K[k].y]]
            /\ \A k \in 1..(Len(K) - 1) :
                  /\ K[k].i < K[k + 1].i
                  /\ \A j \in (K[k].i + 1)..(K[k + 1].i - 1) :
                        WithinTolerance(contour[j], contour[K[k].i], contour[K[k + 1].i], t)

\* With a tolerance above 0 one inner point was dropped and another, off
\* the line by more than the tolerance, was kept.
C18_Witness ==
    /\ pc = "returned"
    /\ result[1].tolerance >= 1
    /\ Len(contour) = 4
    /\ Len(Simplified) = 3
    /\ contour[1] # contour[4]

(***************************************************************************)
(* Claims about the written document                                       *)
(***************************************************************************)
\* C19 as claimed: every polygon of the written document has at least 3
\* points.
C19_MinThree ==
    pc = "done" =>
        \A i \in 1..Len(document.tiles) : Len(document.tiles[i].polygon) >= 3

\* C20 as claimed: the written document has the fields width, height and
\* tiles and no other, and each of its tile records has the fields id,
\* centerX, centerY and polygon and no other.
C20_ExactShape ==
    pc = "done" =>
        /\ DOMAIN document = {"width", "height", "tiles"}
        /\ \A i \in 1..Len(document.tiles) :
              DOMAIN document.tiles[i] = {"id", "centerX", "centerY", "polygon"}

(***************************************************************************)
(* Claims about floodFill and the seed loops                               *)
(***************************************************************************)
SeedIdx(k) == PixelIdx(SeedSeq[k][1], SeedSeq[k][2])

\* C25: a pixel is added to a region only when it is open space and not yet
\* marked visited, it is marked in the step that adds it, and no mark is
\* ever taken away: the pixels of the region being filled and of every
\* accepted region are marked, and so are those of a discarded region.  A
\* seed that is marked or is a border pixel starts no fill.
C25_FilledOnce ==
    /\ [](/\ \A xy \in region.pixels : PixelIdx(xy[1], xy[2]) \in visited
          /\ \A i \in 1..Len(tiles) :
                \A xy \in tiles[i].pixels : PixelIdx(xy[1], xy[2]) \in visited)
    /\ [][/\ visited \subseteq visited'
          /\ \A xy \in region'.pixels \ region.pixels :
                /\ PixelIdx(xy[1], xy[2]) \notin visited
                /\ PixelIdx(xy[1], xy[2]) \in visited'
                /\ edges[PixelIdx(xy[1], xy[2])] = 0
          /\ Cardinality(visited') = Cardinality(visited)
                + Cardinality(region'.pixels \ region.pixels)
          /\ (pc = "seed" /\ seed <= Len(SeedSeq)
                /\ (SeedIdx(seed) \in visited \/ edges[SeedIdx(seed)] = 1)) =>
                (pc' = "seed" /\ seed' = seed + 1 /\ region' = region /\ tiles' = tiles)
         ]_vars

\* A region with two seed points in it was discarded: its first seed point
\* started the only fill so far, its second was passed over, and so was the
\* third seed point, which is a border pixel.
C25_Witness ==
    /\ pc = "seed"
    /\ seed = 4
    /\ tiles = <<>>
    /\ lastSize > 0
    /\ Cardinality(visited) = lastSize
    /\ SeedIdx(1) \in visited
    /\ SeedIdx(2) \in visited
    /\ edges[SeedIdx(3)] = 1

\* C26: the bounding box of every accepted region is the smallest box that
\* holds its pixels, and its centre is the midpoint of the box, a half
\* rounded up, which lies inside the box.
C26_TightBox ==
    \A i \in 1..Len(tiles) :
        LET t == tiles[i]
            xs == {xy[1] : xy \in t.pixels}
            ys == {xy[2] : xy \in t.pixels}
        IN  /\ t.minX \in xs /\ \A x \in xs : t.minX <= x
            /\ t.maxX \in xs /\ \A x \in xs : x <= t.maxX
            /\ t.minY \in ys /\ \A y \in ys : t.minY <= y
            /\ t.maxY \in ys /\ \A y \in ys : y <= t.maxY
            /\ 2 * t.centerX \in {t.minX + t.maxX, t.minX + t.maxX + 1}
            /\ 2 * t.centerY \in {t.minY + t.maxY, t.minY + t.maxY + 1}
            /\ t.minX <= t.centerX /\ t.centerX <= t.maxX
            /\ t.minY <= t.centerY /\ t.centerY <= t.maxY

\* A region was accepted whose box is not the whole image and whose
\* midpoint in y falls on a half.
C26_Witness ==
    \E i \in 1..Len(tiles) :
        /\ (tiles[i].minY + tiles[i].maxY) % 2 = 1
        /\ tiles[i].minX > 0
        /\ tiles[i].maxX < width - 1

(***************************************************************************)
(* Claims about the zero-region run                                        *)
(***************************************************************************)
\* C24 as claimed: a run that accepted no region ends with a document whose
\* tile list is empty and with a warning logged.
C24_EmptyWarned ==
    (pc = "done" /\ tiles = <<>>) =>
        /\ document.tiles = <<>>
        /\ warned # {}

(***************************************************************************)
(* Claims about douglasPeucker                                             *)
(***************************************************************************)
\* C27: the points returned are points of the list given, each taken once
\* and in the order of the list; the first and the last point of the list
\* are the first and the last returned; and when the farthest point is
\* farther than the tolerance from the line through the end points, that
\* split point is returned exactly once.
C27_Subsequence ==
    pc = "returned" =>
        LET t == result[1].tolerance
            K == Kept(contour, t)
            far == FarthestFrom(contour)
        IN  /\ Len(K) = Len(Simplified)
            /\ \A k \in 1..Len(K) :
                  /\ K[k].i \in 1..Len(contour)
                  /\ Simplified[k] = contour[K[k].i]
            /\ \A k \in 1..(Len(K) - 1) : K[k].i < K[k + 1].i
            /\ Len(contour) >= 1 =>
                  /\ Len(K) >= 1
                  /\ K[1].i = 1
                  /\ K[Len(K)].i = Len(contour)
            /\ (Len(contour) >= 3 /\ ExceedsTolerance(far.maxDist, t)) =>
                  Cardinality({k \in 1..Len(K) : K[k].i = far.maxIndex}) = 1

\* A closed list of four points was split once, with a tolerance above 0,
\* and came back as three points.
C27_Witness ==
    /\ pc = "returned"
    /\ result[1].tolerance >= 1
    /\ Len(contour) = 4
    /\ contour[1] = contour[4]
    /\ ExceedsTolerance(FarthestFrom(contour).maxDist, result[1].tolerance)
    /\ Len(Simplified) = 3

(***************************************************************************)
(* Claims about the search order of mooreNeighborTracing                   *)
(***************************************************************************)
\* The eight neighbours in the order E, SE, S, SW, W, NW, N, NE.
Compass ==
    << <<1, 0>>, <<1, 1>>, <<0, 1>>, <<-1, 1>>, <<-1, 0>>, <<-1, -1>>, <<0, -1>>, <<1, -1>> >>

\* The border pixel next to (x, y) in the direction of index k, if any.
BorderAt(xy, k) ==
    LET nx == xy[1] + Compass[k + 1][1]
        ny == xy[2] + Compass[k + 1][2]
    IN  /\ nx >= 0 /\ nx < width /\ ny >= 0 /\ ny < height
        /\ edges[ny * width + nx] = 1

\* C28: the direction index stays in 0..7 and the first search of a trace
\* starts at E; an iteration moves to the first border pixel among the eight
\* neighbours taken in the order E, SE, S, SW, W, NW, N, NE from the current
\* direction, and after a move in direction d the next search starts at
\* (d + 6) mod 8; when no neighbour is a border pixel the walk stays and the
\* trace returns.  So every contour point is a border pixel inside the image
\* and consecutive contour points are 8-adjacent.
C28_SearchOrder ==
    /\ [](/\ dir \in 0..7
          /\ \A i \in 1..Len(contour) :
                /\ contour[i].x \in 0..(width - 1)
                /\ contour[i].y \in 0..(height - 1)
                /\ edges[contour[i].y * width + contour[i].x] = 1
          /\ \A i \in 1..(Len(contour) - 1) : Adjacent8(contour[i], contour[i + 1]))
    /\ [][/\ (pc = "contours" /\ pc' = "trace") => dir' = 0
          /\ pc = "trace" =>
                LET hits == {i \in 0..7 : BorderAt(cur, (dir + i) % 8)}
                IN  IF hits = {}
                    THEN cur' = cur /\ pc' = "simplify"
                    ELSE \E i \in hits :
                            /\ \A j \in hits : i <= j
                            /\ cur' = <<cur[1] + Compass[((dir + i) % 8) + 1][1],
                                        cur[2] + Compass[((dir + i) % 8) + 1][2]>>
                            /\ dir' = (((dir + i) % 8) + 6) % 8
         ]_vars

\* A trace has made at least four moves, the last of them neither to the
\* east nor to the south.
C28_Witness ==
    /\ pc = "trace"
    /\ iterations >= 4
    /\ Len(contour) >= 4
    /\ dir \notin {0, 6}

(***************************************************************************)
(* Claims about the start scan of extractPreciseContours                   *)
(***************************************************************************)
\* The border pixels inside the bounding box of a tile.
BoxBorder(tile) ==
    {xy \in (tile.minX..tile.maxX) \X (tile.minY..tile.maxY) :
        edges[xy[2] * width + xy[1]] = 1}

\* C30: the start pixel of a trace lies inside the bounding box of its tile;
\* a tile whose bounding box holds no border pixel is never traced and is
\* pushed with the four corners of the box as polygon.
C30_BoxWithoutBorder ==
    /\ pc \in {"trace", "simplify"} =>
          /\ start[1] \in tiles[tileNo].minX..tiles[tileNo].maxX
          /\ start[2] \in tiles[tileNo].minY..tiles[tileNo].maxY
          /\ BoxBorder(tiles[tileNo]) # {}
    /\ \A i \in 1..Len(result) :
          BoxBorder(tiles[i]) = {} =>
              /\ "pixels" \in DOMAIN result[i]
              /\ result[i].polygon =
                    << [x |-> tiles[i].minX, y |-> tiles[i].minY],
                       [x |-> tiles[i].maxX, y |-> tiles[i].minY],
                       [x |-> tiles[i].maxX, y |-> tiles[i].maxY],
                       [x |-> tiles[i].minX, y |-> tiles[i].maxY] >>

\* The stage ended with the record of a rectangular region that fills its
\* bounding box and is shut in by border pixels just outside it on the left
\* and on the right.
C30_Witness ==
    /\ pc = "done"
    /\ \E i \in 1..Len(result) :
          /\ BoxBorder(tiles[i]) = {}
          /\ tiles[i].pixels =
                (tiles[i].minX..tiles[i].maxX) \X (tiles[i].minY..tiles[i].maxY)
          /\ \A y \in tiles[i].minY..tiles[i].maxY :
                /\ edges[y * width + tiles[i].minX - 1] = 1
                /\ edges[y * width + tiles[i].maxX + 1] = 1

(***************************************************************************)
(* Claims about the two scripts run one after the other                    *)
(***************************************************************************)
\* The dark pixels of the image the repair was given: the repair writes 0
\* where it fills and leaves every other pixel as it was loaded.
OriginalDark == {p \in Pixels : data[p] = InputDark}

EndToEndScene == SquareScene(EndToEndSize, EndToEndSize, SquareGap)

\* The pixels of the box of sw x sh pixels whose top left pixel is (x0, y0).
Box(x0, y0, sw, sh) == (x0..(x0 + sw - 1)) \X (y0..(y0 + sh - 1))

\* C22 as claimed: on the image with the square border that has a gap, the
\* three passes close the gap, every region segmentation accepts has an area
\* within half of InteriorSide squared of that number and a centre within a
\* pixel of the middle of the image, and the run ends with exactly one tile,
\* whose polygon has 4 to 8 points.
C22_EndToEnd ==
    (width = EndToEndScene.w /\ height = EndToEndScene.h
        /\ OriginalDark = EndToEndScene.dark) =>
        /\ pass = numPasses =>
              \A p \in SquareGapPixels(width, height, SquareGap) : IsDark(data[p])
        /\ \A i \in 1..Len(tiles) :
              /\ 2 * Cardinality(tiles[i].pixels) >= InteriorSide * InteriorSide
              /\ 2 * Cardinality(tiles[i].pixels) <= 3 * InteriorSide * InteriorSide
              /\ tiles[i].centerX - width \div 2 \in -1..1
              /\ tiles[i].centerY - height \div 2 \in -1..1
        /\ pc = "done" =>
              /\ Len(document.tiles) = 1
              /\ Len(document.tiles[1].polygon) \in 4..8

GapScene == RoomsScene(DividerGap)

\* The open-space pixels of the two rooms, left and right of the column
\* between them.
LeftRoom == {xy \in Box(RoomMargin, RoomMargin, RoomSide, RoomSide) :
                edges[xy[2] * width + xy[1]] = 0}
RightRoom == {xy \in Box(DividerX + 1, RoomMargin, RoomSide, RoomSide) :
                 edges[xy[2] * width + xy[1]] = 0}

NextToRun(d, x, y) ==
    \/ \E dy \in {-1, 1} :
          isDarkAt(d, x - 1, y + dy) /\ isDarkAt(d, x, y + dy) /\ isDarkAt(d, x + 1, y + dy)
    \/ \E dx \in {-1, 1} :
          isDarkAt(d, x + dx, y - 1) /\ isDarkAt(d, x + dx, y) /\ isDarkAt(d, x + dx, y + 1)

\* The boxes that a whole, straight border one pixel wide encloses in the
\* images of the pipeline, as [x0, y0, side], for the image in data.
EnclosedBoxes ==
    IF width = RoomsWidth /\ height = RoomsHeight
          /\ OriginalDark = SquareScene(RoomsWidth, RoomsHeight, 0).dark
    THEN {[x0 |-> SquareX0(width), y0 |-> SquareY0(height), side |-> InteriorSide]}
    ELSE IF width = RoomsWidth /\ height = RoomsHeight
          /\ OriginalDark = RoomsScene(0).dark
    THEN {[x0 |-> RoomMargin, y0 |-> RoomMargin, side |-> RoomSide],
          [x0 |-> DividerX + 1, y0 |-> RoomMargin, side |-> RoomSide]}
    ELSE {}

\* C29: a pass marks every non-border, non-edge pixel that is orthogonally
\* next to the middle of a straight run of three border pixels; such a pixel
\* has at least three dark neighbours.  So the open space of a box of side s
\* enclosed by a whole, straight border is, after k passes, the box of side
\* s - 2k in its middle: one pixel less on each side per pass.
C29_Thickens ==
    /\ [][pass' = pass + 1 =>
             \A p \in Pixels :
                 (NonEdge(p) /\ ~IsDark(data[p]) /\ NextToRun(data, XOf(p), YOf(p))) =>
                     /\ darkCount(neighbors(data, XOf(p), YOf(p))) >= 3
                     /\ IsDark(data'[p])]_vars
    /\ [](\A b \in EnclosedBoxes :
             \A xy \in Box(b.x0, b.y0, b.side, b.side) :
                 ~IsDark(data[xy[2] * width + xy[1]]) <=>
                     xy \in Box(b.x0 + pass, b.y0 + pass,
                                b.side - 2 * pass, b.side - 2 * pass))

\* The three passes ran on the image of the whole square border, and open
\* space is left in the middle of its interior.
C29_Witness ==
    /\ pass = numPasses
    /\ pc = "saved"
    /\ EnclosedBoxes # {}
    /\ \E b \in EnclosedBoxes :
          /\ b.side = InteriorSide
          /\ b.side - 2 * numPasses >= 1
          /\ ~IsDark(data[(b.y0 + numPasses) * width + b.x0 + numPasses])
          /\ IsDark(data[(b.y0 + numPasses - 1) * width + b.x0 + numPasses])

====
